---- MODULE Spec2Model ----
(***************************************************************************)
(* Presence and message delivery of the chat server.                       *)
(*                                                                         *)
(* The repository holds three revisions of the server side:                *)
(*   "handlers" : socket/socketHandlers (onlineUsers : Map<user, Set<id>>),*)
(*                models/Message.ts (sender, receiver, content, isRead),   *)
(*                models/Chat.ts                                           *)
(*   "service"  : SocketService + MessageService (app.ts), the HTTP        *)
(*                controller built on them, the Message model with the     *)
(*                pre-save content check (senderId, receiverId, text,      *)
(*                image, seen)                                             *)
(*   "legacy"   : the userSocketMap of index.ts and the first HTTP         *)
(*                controller (controllers/message.controller.ts)           *)
(* A behaviour runs one revision, chosen by Init (variable rev).           *)
(***************************************************************************)
EXTENDS Integers, Naturals, Sequences, FiniteSets, Bags, TLC

\* ------------------------------------------------------------------ bounds
NumConns == 3
MaxMsgs == 2
NumTasks == 2

Conns == 1..NumConns
MsgIds == 1..MaxMsgs
Tasks == 1..NumTasks
\* getConversationMessages: page numbers asked for, and page sizes (the
\* default, which holds every conversation of the model, and a small one)
MaxPage == 2
Pages == 1..MaxPage
DefaultLimit == 50
Limits == {1, DefaultLimit}

\* ------------------------------------------------------------ identities
Accounts == {"a", "b"}
NoUser == ""
Ghost == "x"
UserIds == Accounts \cup {Ghost}
Revisions == {"handlers", "service", "legacy"}

VARIABLES
  rev,            \* the revision this behaviour runs
  sockets,        \* transport: conn id -> [st, user]
  onlineUsers,    \* handlers: user id -> set of socket ids
  userSocketMap,  \* service, legacy: user id -> socket id
  messages,       \* Message collection: id -> document
  nextId,         \* next message id
  chats,          \* Chat collection (handlers): sequence of documents
  tasks,          \* the handler invocations in flight
  emitted,        \* the events the last step delivered, as a bag
  reply           \* the invocation that returned in the last step, if any

vars == <<rev, sockets, onlineUsers, userSocketMap, messages, nextId, chats,
          tasks, emitted, reply>>

\* -------------------------------------------------------------- maps
EmptyMap == [k \in {} |-> 0]
MapSet(m, k, v) == [j \in DOMAIN m \cup {k} |-> IF j = k THEN v ELSE m[j]]
MapDel(m, k) == [j \in DOMAIN m \ {k} |-> m[j]]

\* ------------------------------------------------------------ transport
NewSocket == [st |-> "new", user |-> NoUser]
Active(c) == sockets[c].st = "active"
LiveConns(u) == {c \in Conns : Active(c) /\ sockets[c].user = u}
AllLive == {c \in Conns : Active(c)}

\* A delivery: event ev reaches connection to. mids are the messages it carries,
\* who the user it names (reader, typist), users the presence list.
Dlv(to, ev, mids, who, users) ==
  [to |-> to, ev |-> ev, mids |-> mids, who |-> who, users |-> users]

\* io.emit(ev, ...): every connected socket.
IoEmit(ev, mids, who, users) ==
  SetToBag({Dlv(c, ev, mids, who, users) : c \in AllLive})
\* io.to(socketId).emit: the socket's own room; nothing if it is gone.
EmitToSocket(c, ev, mids, who) ==
  SetToBag({Dlv(d, ev, mids, who, {}) : d \in {c} \cap AllLive})
\* io.to(userId).emit: the sockets that joined the user's room on connection.
EmitToUserRoom(u, ev, mids, who) ==
  SetToBag({Dlv(c, ev, mids, who, {}) : c \in LiveConns(u)})

\* ------------------------------------------------------- session registry
\* handlers: connection handler's registration
RegisterOnline(reg, u, c) ==
  IF u \in DOMAIN reg THEN MapSet(reg, u, reg[u] \cup {c})
  ELSE MapSet(reg, u, {c})

\* handlers: disconnect handler's deregistration (and, first, a variant that
\* keeps the key of an emptied set, and one that drops the user's only
\* connection but forgets the socket id when the user has several)
MutDeregisterOnline(reg, u, c) ==
  IF u \in DOMAIN reg THEN MapSet(reg, u, reg[u] \ {c}) ELSE reg
MutDeregisterLast(reg, u, c) ==
  IF u \in DOMAIN reg /\ reg[u] = {c} THEN MapDel(reg, u) ELSE reg
DeregisterOnline(reg, u, c) ==
  IF u \in DOMAIN reg
  THEN IF reg[u] \ {c} = {} THEN MapDel(reg, u)
       ELSE MapSet(reg, u, reg[u] \ {c})
  ELSE reg

\* service: isUserOnline; handlers: onlineUsers.has
IsUserOnline(u) ==
  IF rev = "handlers" THEN u \in DOMAIN onlineUsers
  ELSE u \in DOMAIN userSocketMap

\* the keys a presence broadcast carries (and, first, a variant that reads the
\* keys before the handler updated the registry)
MutOnlineKeys(reg) ==
  IF rev = "handlers" THEN DOMAIN onlineUsers ELSE DOMAIN userSocketMap
OnlineKeys(reg) == DOMAIN reg

\* A handler invocation: the event or request (op), where it stands (pc), the
\* socket it arrived on (0: an HTTP request), the caller (socket.userId or
\* req.user._id), its arguments and locals, and its outcome (res).
IdleTask ==
  [op |-> "idle", pc |-> "idle", sock |-> 0, user |-> NoUser, peer |-> NoUser,
   text |-> "", image |-> "", mid |-> 0, mids |-> {}, ids |-> {},
   page |-> 0, limit |-> 0, chat |-> 0, n |-> 0, failed |-> FALSE, res |-> "none",
   ret |-> "none"]

Init ==
  /\ rev \in Revisions
  /\ sockets = [c \in Conns |-> NewSocket]
  /\ onlineUsers = EmptyMap
  /\ userSocketMap = EmptyMap
  /\ messages = EmptyMap
  /\ nextId = 1
  /\ chats = <<>>
  /\ tasks = [t \in Tasks |-> IdleTask]
  /\ emitted = EmptyBag
  /\ reply = IdleTask

\* ------------------------------------------------- connect / disconnect
\* Socket ids are handed out in order; a socket id is never reused.
FreshConn(c) ==
  /\ sockets[c].st = "new"
  /\ \A d \in Conns : d < c => sockets[d].st # "new"

\* handlers: io.use passed (token names an existing account), connection
HConnect(c, u) ==
  /\ rev = "handlers"
  /\ FreshConn(c)
  /\ u \in Accounts
  /\ sockets' = [sockets EXCEPT ![c] = [st |-> "active", user |-> u]]
  /\ onlineUsers' = RegisterOnline(onlineUsers, u, c)
  /\ emitted' = SetToBag({Dlv(d, "getOnlineUsers", {}, NoUser, OnlineKeys(onlineUsers'))
                           : d \in AllLive \cup {c}})
  /\ UNCHANGED <<rev, userSocketMap, messages, nextId, chats, tasks>>
  /\ reply' = IdleTask

\* The handshake's token, by what jwt.verify makes of it: absent (""), one
\* that verify throws on (bad signature, expired), or the user id it decodes to.
BadToken == "!"
Tokens == UserIds \cup {NoUser, BadToken}
\* io.use: the user the token stands for, NoUser when the middleware calls
\* next(new Error(...))
Authenticated(tok) ==
  IF tok = NoUser THEN NoUser
  ELSE IF tok = BadToken THEN NoUser
  ELSE IF tok \notin Accounts THEN NoUser
  ELSE tok

\* handlers: io.use refuses the handshake; no connection event is raised
HReject(c, tok) ==
  /\ rev = "handlers"
  /\ FreshConn(c)
  /\ Authenticated(tok) = NoUser
  /\ sockets' = [sockets EXCEPT ![c] = [st |-> "closed", user |-> NoUser]]
  /\ emitted' = EmptyBag
  /\ UNCHANGED <<rev, onlineUsers, userSocketMap, messages, nextId, chats, tasks>>
  /\ reply' = IdleTask

\* handlers: socket.on("disconnect")
HDisconnect(c) ==
  /\ rev = "handlers"
  /\ Active(c)
  /\ sockets' = [sockets EXCEPT ![c].st = "closed"]
  /\ onlineUsers' = DeregisterOnline(onlineUsers, sockets[c].user, c)
  /\ emitted' = SetToBag({Dlv(d, "getOnlineUsers", {}, NoUser, OnlineKeys(onlineUsers'))
                           : d \in AllLive \ {c}})
  /\ UNCHANGED <<rev, userSocketMap, messages, nextId, chats, tasks>>
  /\ reply' = IdleTask

\* service: handleUserConnection (a socket without userId is left unregistered)
SConnect(c, u) ==
  /\ rev = "service"
  /\ FreshConn(c)
  /\ u \in Accounts \cup {NoUser}
  /\ sockets' = [sockets EXCEPT ![c] = [st |-> "active", user |-> u]]
  /\ IF u = NoUser
     THEN /\ emitted' = EmptyBag
          /\ UNCHANGED userSocketMap
     ELSE /\ userSocketMap' = MapSet(userSocketMap, u, c)
          /\ emitted' = SetToBag({Dlv(d, "online_users", {}, NoUser, OnlineKeys(userSocketMap'))
                                   : d \in AllLive \cup {c}})
  /\ UNCHANGED <<rev, onlineUsers, messages, nextId, chats, tasks>>
  /\ reply' = IdleTask

\* service: handleUserDisconnection
SDisconnect(c) ==
  /\ rev = "service"
  /\ Active(c)
  /\ sockets' = [sockets EXCEPT ![c].st = "closed"]
  /\ IF sockets[c].user = NoUser
     THEN /\ emitted' = EmptyBag
          /\ UNCHANGED userSocketMap
     ELSE /\ userSocketMap' = MapDel(userSocketMap, sockets[c].user)
          /\ emitted' = SetToBag({Dlv(d, "online_users", {}, NoUser, OnlineKeys(userSocketMap'))
                                   : d \in AllLive \ {c}})
  /\ UNCHANGED <<rev, onlineUsers, messages, nextId, chats, tasks>>
  /\ reply' = IdleTask

\* legacy: io.on("connection"), userId taken from the handshake query
LConnect(c, u) ==
  /\ rev = "legacy"
  /\ FreshConn(c)
  /\ u \in UserIds \cup {NoUser}
  /\ sockets' = [sockets EXCEPT ![c] = [st |-> "active", user |-> u]]
  /\ userSocketMap' = IF u # NoUser THEN MapSet(userSocketMap, u, c) ELSE userSocketMap
  /\ emitted' = SetToBag({Dlv(d, "getOnlineUsers", {}, NoUser, OnlineKeys(userSocketMap'))
                           : d \in AllLive \cup {c}})
  /\ UNCHANGED <<rev, onlineUsers, messages, nextId, chats, tasks>>
  /\ reply' = IdleTask

\* legacy: socket.on("disconnect")
LDisconnect(c) ==
  /\ rev = "legacy"
  /\ Active(c)
  /\ sockets' = [sockets EXCEPT ![c].st = "closed"]
  /\ userSocketMap' = MapDel(userSocketMap, sockets[c].user)
  /\ emitted' = SetToBag({Dlv(d, "getOnlineUsers", {}, NoUser, OnlineKeys(userSocketMap'))
                           : d \in AllLive \ {c}})
  /\ UNCHANGED <<rev, onlineUsers, messages, nextId, chats, tasks>>
  /\ reply' = IdleTask

\* A handler that the transport raises once more for the same socket: the
\* connection handler for a socket that is open, the disconnect handler for a
\* socket that is closed. The handler runs as written; reply shows that it
\* returned.
Again(op, c) ==
  [IdleTask EXCEPT !.op = op, !.sock = c, !.user = sockets[c].user,
                   !.pc = "done", !.res = "ok"]

\* handlers: the connection handler, once more
HConnectAgain(c) ==
  /\ rev = "handlers"
  /\ Active(c)
  /\ onlineUsers' = RegisterOnline(onlineUsers, sockets[c].user, c)
  /\ emitted' = IoEmit("getOnlineUsers", {}, NoUser, OnlineKeys(onlineUsers'))
  /\ UNCHANGED <<rev, sockets, userSocketMap, messages, nextId, chats, tasks>>
  /\ reply' = Again("connection", c)

\* handlers: the disconnect handler, once more (socket.userId is set)
HDisconnectAgain(c) ==
  /\ rev = "handlers"
  /\ sockets[c].st = "closed" /\ sockets[c].user # NoUser
  /\ onlineUsers' = DeregisterOnline(onlineUsers, sockets[c].user, c)
  /\ emitted' = IoEmit("getOnlineUsers", {}, NoUser, OnlineKeys(onlineUsers'))
  /\ UNCHANGED <<rev, sockets, userSocketMap, messages, nextId, chats, tasks>>
  /\ reply' = Again("disconnect", c)

\* service: handleUserConnection, once more
SConnectAgain(c) ==
  /\ rev = "service"
  /\ Active(c)
  /\ IF sockets[c].user = NoUser
     THEN /\ emitted' = EmptyBag
          /\ UNCHANGED userSocketMap
     ELSE /\ userSocketMap' = MapSet(userSocketMap, sockets[c].user, c)
          /\ emitted' = IoEmit("online_users", {}, NoUser, OnlineKeys(userSocketMap'))
  /\ UNCHANGED <<rev, sockets, onlineUsers, messages, nextId, chats, tasks>>
  /\ reply' = Again("connection", c)

\* service: handleUserDisconnection, once more
SDisconnectAgain(c) ==
  /\ rev = "service"
  /\ sockets[c].st = "closed"
  /\ IF sockets[c].user = NoUser
     THEN /\ emitted' = EmptyBag
          /\ UNCHANGED userSocketMap
     ELSE /\ userSocketMap' = MapDel(userSocketMap, sockets[c].user)
          /\ emitted' = IoEmit("online_users", {}, NoUser, OnlineKeys(userSocketMap'))
  /\ UNCHANGED <<rev, sockets, onlineUsers, messages, nextId, chats, tasks>>
  /\ reply' = Again("disconnect", c)

\* legacy: the connection handler, once more
LConnectAgain(c) ==
  /\ rev = "legacy"
  /\ Active(c)
  /\ userSocketMap' = IF sockets[c].user # NoUser
                      THEN MapSet(userSocketMap, sockets[c].user, c)
                      ELSE userSocketMap
  /\ emitted' = IoEmit("getOnlineUsers", {}, NoUser, OnlineKeys(userSocketMap'))
  /\ UNCHANGED <<rev, sockets, onlineUsers, messages, nextId, chats, tasks>>
  /\ reply' = Again("connection", c)

\* legacy: the disconnect handler, once more
LDisconnectAgain(c) ==
  /\ rev = "legacy"
  /\ sockets[c].st = "closed"
  /\ userSocketMap' = MapDel(userSocketMap, sockets[c].user)
  /\ emitted' = IoEmit("getOnlineUsers", {}, NoUser, OnlineKeys(userSocketMap'))
  /\ UNCHANGED <<rev, sockets, onlineUsers, messages, nextId, chats, tasks>>
  /\ reply' = Again("disconnect", c)

\* ------------------------------------------------------ typing indicators
\* the user_typing payload: who types, and whether typing started or stopped
TypingDlv(to, who, isTyping) ==
  [to |-> to, ev |-> "user_typing", mids |-> {}, who |-> who, users |-> {},
   isTyping |-> isTyping]
\* the event returned: typing_start or typing_stop of socket c for receiverId
Typed(c, receiverId, isTyping) ==
  [IdleTask EXCEPT !.op = IF isTyping THEN "typing_start" ELSE "typing_stop",
                   !.sock = c, !.user = sockets[c].user, !.peer = receiverId,
                   !.pc = "done", !.res = "ok"]

\* service: handleTypingIndicator, to the receiver's socket of userSocketMap
STyping(c, receiverId, isTyping) ==
  /\ rev = "service"
  /\ Active(c)
  /\ emitted' = IF receiverId \in DOMAIN userSocketMap
                THEN SetToBag({TypingDlv(d, sockets[c].user, isTyping) :
                                 d \in {userSocketMap[receiverId]} \cap AllLive})
                ELSE EmptyBag
  /\ reply' = Typed(c, receiverId, isTyping)
  /\ UNCHANGED <<rev, sockets, onlineUsers, userSocketMap, messages, nextId, chats, tasks>>

\* handlers: typing_start / typing_stop, to the room of the receiver's id
HTyping(c, receiverId, isTyping) ==
  /\ rev = "handlers"
  /\ Active(c)
  /\ emitted' = SetToBag({TypingDlv(d, sockets[c].user, isTyping) :
                            d \in LiveConns(receiverId)})
  /\ reply' = Typed(c, receiverId, isTyping)
  /\ UNCHANGED <<rev, sockets, onlineUsers, userSocketMap, messages, nextId, chats, tasks>>

\* ------------------------------------------------------------ payloads
\* Text and image values: absent or empty (""), blank (" "), present.
Payloads == {<<"", "">>, <<" ", "">>, <<"hi", "">>, <<"", "img">>}
\* mongoose `trim: true`
Trim(s) == IF s = " " THEN "" ELSE s
\* JavaScript !s of a string or an id (undefined and "" are falsy)
Falsy(s) == s = ""

regs == <<rev, sockets, onlineUsers, userSocketMap>>

\* ------------------------------------------------------ user ids
\* A user id as a caller hands it over: the string of the token
\* (socket.userId) or the ObjectId of the user document (req.user._id).
StrId(u) == [rep |-> "string", hex |-> u]
ObjId(u) == [rep |-> "oid", hex |-> u]
\* ObjectId.prototype.toString()
OidToString(id) == [rep |-> "string", hex |-> id.hex]
\* JavaScript a !== b: strings differ by value, an object differs from every
\* string and from every other object
StrictNeq(a, b) ==
  IF a.rep = "string" /\ b.rep = "string" THEN a.hex # b.hex ELSE TRUE

\* ------------------------------------------------------ invocations
StartOK(t) ==
  /\ tasks[t].op = "idle"
  /\ \A s \in Tasks : s < t => tasks[s].op # "idle"
SendOps == {"send", "httpSend", "hsend", "lsend"}
\* message ids are bounded: an invocation that may store a message starts
\* only while an id is left for it
Unsaved == Cardinality({t \in Tasks : tasks[t].op \in SendOps /\ tasks[t].mid = 0})
SendBudget == nextId + Unsaved <= MaxMsgs
Call(op, c, u) == [IdleTask EXCEPT !.op = op, !.sock = c, !.user = u]
\* the id a handler passes on as userId: socket.userId of a socket event,
\* req.user._id of an HTTP request (authMiddleware attaches the document)
CallerId(k) == IF k.sock # 0 THEN StrId(k.user) ELSE ObjId(k.user)
\* the invocation returns: its slot is freed, its outcome shown for one step
Returns(t, k, res) ==
  /\ tasks' = [tasks EXCEPT ![t] = IdleTask]
  /\ reply' = [k EXCEPT !.pc = "done", !.res = res]
Continues(t, k) ==
  /\ tasks' = [tasks EXCEPT ![t] = k]
  /\ reply' = IdleTask
  /\ emitted' = EmptyBag

\* ------------------------------------------- dates of a message
\* `timestamps: true`: updatedAt equals createdAt when the document is
\* inserted and is set to the time of every later save or update that
\* modifies it; readAt (handlers) is absent until the message is read.
AtCreation == "createdAt"
Later == "later"
NoDate == "none"

\* ------------------------------------------- service: Message model
\* new Message({...}): the schema's setters trim text and image; seen is false
NewMessage(senderId, receiverId, text, image) ==
  [senderId |-> senderId, receiverId |-> receiverId, text |-> Trim(text),
   image |-> Trim(image), seen |-> FALSE, updatedAt |-> AtCreation]
\* messageSchema.pre("save"): a message has text or an image
PreSaveOk(doc) == ~(Falsy(doc.text) /\ Falsy(doc.image))
\* message.save(): the insert (and, first, a variant that inserts nothing)
MutSaveMessage(msgs, id, doc) == msgs
SaveMessage(msgs, id, doc) == MapSet(msgs, id, doc)

\* ------------------------------------------- service: MessageService
\* createMessage: both users exist
CreateMessageLookup(senderId, receiverId) ==
  IF senderId \notin Accounts THEN "NotFound"
  ELSE IF receiverId \notin Accounts THEN "NotFound"
  ELSE "ok"
\* createMessage: cloudinary.uploader.upload gives the url, or throws
UploadOutcomes(image) == IF Falsy(image) THEN {""} ELSE {"url", "fail"}
\* createMessage: "Validate that message has content"
CreateHasContent(text, imageUrl) == ~(Falsy(text) /\ Falsy(imageUrl))
\* handleSendMessage: "Validate message data"
SendHasContent(text, image) == ~(Falsy(text) /\ Falsy(image))

\* markSingleMessageAsSeen: its outcome and its effect on the collection
MarkSingleResult(msgs, m, userId) ==
  IF m \notin DOMAIN msgs THEN "NotFound"
  ELSE IF StrictNeq(OidToString(ObjId(msgs[m].receiverId)), userId) THEN "Forbidden"
  ELSE "ok"
MarkSingleStore(msgs, m, userId) ==
  IF MarkSingleResult(msgs, m, userId) = "ok"
  THEN [msgs EXCEPT ![m].seen = TRUE, ![m].updatedAt = Later]
  ELSE msgs

\* markMessagesAsSeen(senderId, receiverId): updateMany on the unseen ones
\* (and, first, a variant that marks both directions and one that flips the
\* flag of the whole conversation)
MutMarkBothWays(msgs, senderId, receiverId) ==
  [m \in DOMAIN msgs |->
     IF {msgs[m].senderId, msgs[m].receiverId} = {senderId, receiverId}
        /\ ~msgs[m].seen
     THEN [msgs[m] EXCEPT !.seen = TRUE, !.updatedAt = Later] ELSE msgs[m]]
MutMarkMessagesAsSeen(msgs, senderId, receiverId) ==
  [m \in DOMAIN msgs |->
     IF msgs[m].senderId = senderId /\ msgs[m].receiverId = receiverId
     THEN [msgs[m] EXCEPT !.seen = ~msgs[m].seen, !.updatedAt = Later]
     ELSE msgs[m]]
MarkMessagesAsSeen(msgs, senderId, receiverId) ==
  [m \in DOMAIN msgs |->
     IF msgs[m].senderId = senderId /\ msgs[m].receiverId = receiverId
        /\ ~msgs[m].seen
     THEN [msgs[m] EXCEPT !.seen = TRUE, !.updatedAt = Later] ELSE msgs[m]]

\* what markMessagesAsSeen resolves to: Promise<void>; modifiedCount is only
\* logged. The legacy updateMany is awaited and its result dropped.
Undefined == "undefined"
MarkMessagesAsSeenReturn(msgs, senderId, receiverId) == Undefined

\* the conversation of two users (and, first, a variant that holds only
\* what a received from b)
MutConversation(msgs, a, b) ==
  {m \in DOMAIN msgs : msgs[m].senderId = b /\ msgs[m].receiverId = a}
Conversation(msgs, a, b) ==
  {m \in DOMAIN msgs :
     \/ msgs[m].senderId = a /\ msgs[m].receiverId = b
     \/ msgs[m].senderId = b /\ msgs[m].receiverId = a}
\* sort({createdAt: -1}).skip((page - 1) * limit).limit(limit): createdAt
\* follows the order of creation, which is the order of the ids
PageOf(S, page, limit) ==
  {m \in S : LET rank == Cardinality({n \in S : n >= m})
             IN rank > (page - 1) * limit /\ rank <= page * limit}

\* deleteMessage: its outcome and its effect
DeleteResult(msgs, m, userId) ==
  IF m \notin DOMAIN msgs THEN "NotFound"
  ELSE IF StrictNeq(OidToString(ObjId(msgs[m].senderId)), userId) THEN "Forbidden"
  ELSE "ok"
DeleteStore(msgs, m, userId) ==
  IF DeleteResult(msgs, m, userId) = "ok" THEN MapDel(msgs, m) ELSE msgs

\* ------------------------------------------- service: SocketService pushes
\* emitToOnlineUsers(userIds, ev, data): every connection the registry holds
\* for each of the users
EmitToOnlineUsers(us, ev, mids, who) ==
  SetToBag({Dlv(c, ev, mids, who, {}) :
              c \in {userSocketMap[u] : u \in us \cap DOMAIN userSocketMap} \cap AllLive})
\* handleSendMessage: "Emit to sender", "Emit to receiver if online"
SendPushes(c, receiverId, mid) ==
  EmitToSocket(c, "message_sent", {mid}, NoUser)
  (+) (IF receiverId \in DOMAIN userSocketMap
       THEN EmitToSocket(userSocketMap[receiverId], "message_received", {mid}, NoUser)
       ELSE EmptyBag)
\* controller sendMessage: "Emit message to online receiver"
HttpSendPushes(receiverId, mid) ==
  IF IsUserOnline(receiverId)
  THEN EmitToOnlineUsers({receiverId}, "message_received", {mid}, NoUser)
  ELSE EmptyBag
\* handleMarkMessagesRead: "Emit read receipt to sender"
ReadReceipt(senderId, messageIds, readerId) ==
  IF senderId \in DOMAIN userSocketMap
  THEN EmitToSocket(userSocketMap[senderId], "messages_read", messageIds, readerId)
  ELSE EmptyBag

\* a send fails: the socket handler's catch emits "error" to the socket, the
\* HTTP handler answers with the error (and, first, a variant that swallows
\* the failure)
MutSendFails(t, k, err) ==
  /\ Returns(t, k, "ok")
  /\ emitted' = EmptyBag
  /\ UNCHANGED <<regs, messages, nextId, chats>>
SendFails(t, k, err) ==
  /\ Returns(t, k, err)
  /\ emitted' = IF k.sock # 0 THEN EmitToSocket(k.sock, "error", {}, NoUser)
                ELSE EmptyBag
  /\ UNCHANGED <<regs, messages, nextId, chats>>

\* createMessage up to message.save(): lookup, upload, content check
CreateMessageBegin(t, k) ==
  IF CreateMessageLookup(k.user, k.peer) # "ok"
  THEN SendFails(t, k, "NotFound")
  ELSE \E up \in UploadOutcomes(k.image) :
         IF up = "fail" THEN SendFails(t, k, "UploadFailed")
         ELSE IF ~CreateHasContent(k.text, up)
              THEN SendFails(t, k, "InvalidArgument")
              ELSE /\ SendBudget
                   /\ Continues(t, [k EXCEPT !.pc = "save", !.image = up])
                   /\ UNCHANGED <<regs, messages, nextId, chats>>

\* service: socket.on("send_message") = handleSendMessage, to message.save()
SSendMessage(t, c, receiverId, text, image) ==
  /\ rev = "service"
  /\ StartOK(t)
  /\ Active(c)
  /\ LET k == [Call("send", c, sockets[c].user) EXCEPT
                 !.peer = receiverId, !.text = text, !.image = image]
     IN IF Falsy(receiverId) THEN SendFails(t, k, "ReceiverRequired")
        ELSE IF ~SendHasContent(text, image)
             THEN SendFails(t, k, "InvalidArgument")
             ELSE CreateMessageBegin(t, k)

\* service: POST /send/:id = controller sendMessage, to message.save()
SHttpSend(t, u, receiverId, text, image) ==
  /\ rev = "service"
  /\ StartOK(t)
  /\ u \in Accounts
  /\ receiverId # NoUser
  /\ CreateMessageBegin(t, [Call("httpSend", 0, u) EXCEPT
                              !.peer = receiverId, !.text = text, !.image = image])

\* service: message.save() completes; the handler pushes and returns
SCreateSave(t) ==
  /\ rev = "service"
  /\ tasks[t].op \in {"send", "httpSend"}
  /\ tasks[t].pc = "save"
  /\ LET k == tasks[t]
         doc == NewMessage(k.user, k.peer, k.text, k.image)
     IN IF ~PreSaveOk(doc) THEN SendFails(t, k, "Error")
        ELSE /\ messages' = SaveMessage(messages, nextId, doc)
             /\ nextId' = nextId + 1
             /\ emitted' = IF k.op = "send"
                           THEN SendPushes(k.sock, k.peer, nextId)
                           ELSE HttpSendPushes(k.peer, nextId)
             /\ Returns(t, [k EXCEPT !.mid = nextId], "ok")
             /\ UNCHANGED <<regs, chats>>

\* service: message.save() rejects (the store is down or times out);
\* createMessage rethrows to the handler
SCreateSaveFails(t) ==
  /\ rev = "service"
  /\ tasks[t].op \in {"send", "httpSend"}
  /\ tasks[t].pc = "save"
  /\ SendFails(t, [tasks[t] EXCEPT !.failed = TRUE], "Error")

\* service: socket.on("mark_messages_read") = handleMarkMessagesRead; the
\* Promise.all starts one markSingleMessageAsSeen per listed id
SMarkMessagesRead(t, c, messageIds, senderId) ==
  /\ rev = "service"
  /\ StartOK(t)
  /\ Active(c)
  /\ LET k == [Call("markRead", c, sockets[c].user) EXCEPT
                 !.peer = senderId, !.mids = messageIds, !.ids = messageIds]
     IN IF messageIds = {}
        THEN /\ Returns(t, k, "ok")
             /\ emitted' = ReadReceipt(senderId, messageIds, k.user)
        ELSE Continues(t, [k EXCEPT !.pc = "marking"])
  /\ UNCHANGED <<regs, messages, nextId, chats>>

\* service: one markSingleMessageAsSeen of the batch completes. The first
\* rejection runs the handler's catch (error to the socket); the remaining
\* calls still run. When all have succeeded the receipt is pushed.
SMarkOne(t, m) ==
  /\ rev = "service"
  /\ tasks[t].op = "markRead"
  /\ tasks[t].pc = "marking"
  /\ m \in tasks[t].mids
  /\ LET k == tasks[t]
         r == MarkSingleResult(messages, m, CallerId(k))
         rest == k.mids \ {m}
         left == [k EXCEPT !.mids = rest, !.failed = (k.failed \/ r # "ok")]
     IN /\ messages' = MarkSingleStore(messages, m, CallerId(k))
        /\ IF r # "ok" /\ ~k.failed
           THEN /\ emitted' = EmitToSocket(k.sock, "error", {}, NoUser)
                /\ reply' = [left EXCEPT !.pc = "done", !.res = r]
                /\ tasks' = [tasks EXCEPT ![t] = IF rest = {} THEN IdleTask ELSE left]
           ELSE IF rest = {} /\ ~left.failed
                THEN /\ emitted' = ReadReceipt(k.peer, k.ids, k.user)
                     /\ Returns(t, left, "ok")
                ELSE /\ emitted' = EmptyBag
                     /\ reply' = IdleTask
                     /\ tasks' = [tasks EXCEPT ![t] = IF rest = {} THEN IdleTask ELSE left]
  /\ UNCHANGED <<regs, nextId, chats>>

\* service: PUT /mark-seen/:id = controller markMessagesAsSeen, through
\* getMessageById
SHttpMark(t, u, m) ==
  /\ rev = "service"
  /\ StartOK(t)
  /\ u \in Accounts
  /\ LET k == [Call("httpMark", 0, u) EXCEPT !.mid = m]
     IN IF m \notin DOMAIN messages
        THEN /\ Returns(t, k, "NotFound")
             /\ emitted' = EmptyBag
        ELSE Continues(t, [k EXCEPT !.pc = "mark", !.peer = messages[m].senderId])
  /\ UNCHANGED <<regs, messages, nextId, chats>>

\* service: markSingleMessageAsSeen completes; the receipt goes to the
\* message's sender if online
SHttpMarkSeen(t) ==
  /\ rev = "service"
  /\ tasks[t].op = "httpMark"
  /\ tasks[t].pc = "mark"
  /\ LET k == tasks[t]
         r == MarkSingleResult(messages, k.mid, CallerId(k))
     IN /\ messages' = MarkSingleStore(messages, k.mid, CallerId(k))
        /\ Returns(t, k, r)
        /\ emitted' = IF r = "ok" /\ IsUserOnline(k.peer)
                      THEN EmitToOnlineUsers({k.peer}, "messages_read", {k.mid}, k.user)
                      ELSE EmptyBag
  /\ UNCHANGED <<regs, nextId, chats>>

\* service: GET /conversation/:id = getConversationMessages, through the
\* lookup of the two users and the page query
SGetConversation(t, u, otherUserId, page, limit) ==
  /\ rev = "service"
  /\ StartOK(t)
  /\ u \in Accounts
  /\ LET k == [Call("getConv", 0, u) EXCEPT
                 !.peer = otherUserId, !.page = page, !.limit = limit]
     IN IF otherUserId \notin Accounts
        THEN /\ Returns(t, k, "NotFound")
             /\ emitted' = EmptyBag
        ELSE Continues(t, [k EXCEPT !.pc = "mark",
                             !.mids = PageOf(Conversation(messages, u, otherUserId),
                                             page, limit)])
  /\ UNCHANGED <<regs, messages, nextId, chats>>

\* service: the bulk markMessagesAsSeen completes and the page is returned
SConversationSeen(t) ==
  /\ rev = "service"
  /\ tasks[t].op = "getConv"
  /\ tasks[t].pc = "mark"
  /\ messages' = MarkMessagesAsSeen(messages, tasks[t].peer, tasks[t].user)
  /\ Returns(t, [tasks[t] EXCEPT !.ret = MarkMessagesAsSeenReturn(
                                          messages, tasks[t].peer, tasks[t].user)],
             "ok")
  /\ emitted' = EmptyBag
  /\ UNCHANGED <<regs, nextId, chats>>

\* service: DELETE /:id = controller deleteMessage, through getMessageById
SHttpDelete(t, u, m) ==
  /\ rev = "service"
  /\ StartOK(t)
  /\ u \in Accounts
  /\ LET k == [Call("delete", 0, u) EXCEPT !.mid = m]
     IN IF m \notin DOMAIN messages
        THEN /\ Returns(t, k, "NotFound")
             /\ emitted' = EmptyBag
        ELSE Continues(t, [k EXCEPT !.pc = "delete", !.peer = messages[m].receiverId])
  /\ UNCHANGED <<regs, messages, nextId, chats>>

\* service: MessageService.deleteMessage completes; the notice goes to the
\* receiver if online
SDeleteMessage(t) ==
  /\ rev = "service"
  /\ tasks[t].op = "delete"
  /\ tasks[t].pc = "delete"
  /\ LET k == tasks[t]
         r == DeleteResult(messages, k.mid, CallerId(k))
     IN /\ messages' = DeleteStore(messages, k.mid, CallerId(k))
        /\ Returns(t, k, r)
        /\ emitted' = IF r = "ok" /\ IsUserOnline(k.peer)
                      THEN EmitToOnlineUsers({k.peer}, "message_deleted", {k.mid}, k.user)
                      ELSE EmptyBag
  /\ UNCHANGED <<regs, nextId, chats>>

\* ------------------------------------------- handlers: Message, Chat models
\* new Message({sender, receiver, content, messageType}); content is trimmed
HNewMessage(sender, receiver, content) ==
  [sender |-> sender, receiver |-> receiver, content |-> Trim(content),
   isRead |-> FALSE, readAt |-> NoDate, updatedAt |-> AtCreation]
\* schema validation on save: sender, receiver and content are required
HValid(doc) == ~Falsy(doc.sender) /\ ~Falsy(doc.receiver) /\ ~Falsy(doc.content)
\* Chat.findOne({participants: {$all: [a, b]}}): the first match, 0 if none
FindChat(chs, a, b) ==
  LET hits == {i \in 1..Len(chs) :
                 {a, b} \subseteq {chs[i].participants[1], chs[i].participants[2]}}
  IN IF hits = {} THEN 0 ELSE CHOOSE i \in hits : \A j \in hits : i <= j
\* chat.unreadCount.get(u) || 0
UnreadOf(ch, u) == IF u \in DOMAIN ch.unreadCount THEN ch.unreadCount[u] ELSE 0
\* new Chat({participants, lastMessage, lastMessageTime})
NewChat(a, b, mid) ==
  [participants |-> <<a, b>>, lastMessage |-> mid, unreadCount |-> EmptyMap]
\* chat.participants.find(p => p.toString() !== userId)
OtherParticipant(ch, u) ==
  IF ch.participants[1] # u THEN ch.participants[1]
  ELSE IF ch.participants[2] # u THEN ch.participants[2]
  ELSE NoUser
\* Message.updateMany({_id: {$in: ids}, receiver: userId, isRead: false}, ...)
HMarkRead(msgs, ids, userId) ==
  [m \in DOMAIN msgs |->
     IF m \in ids /\ msgs[m].receiver = userId /\ ~msgs[m].isRead
     THEN [msgs[m] EXCEPT !.isRead = TRUE, !.readAt = Later, !.updatedAt = Later]
     ELSE msgs[m]]

\* send_message: "Emit message to both users", the receiver's sockets of
\* onlineUsers, "Emit chat update to both users" (and, first, a variant that
\* reports an error to the sender when the receiver is not online)
MutHSendPushes(senderId, receiverId, mid) ==
  IF receiverId \in DOMAIN onlineUsers
  THEN EmitToUserRoom(senderId, "message_sent", {mid}, NoUser)
       (+) SetToBag({Dlv(c, "message_received", {mid}, NoUser, {}) :
                       c \in onlineUsers[receiverId] \cap AllLive})
  ELSE EmitToUserRoom(senderId, "error", {}, NoUser)
HSendPushes(senderId, receiverId, mid) ==
  EmitToUserRoom(senderId, "message_sent", {mid}, NoUser)
  (+) (IF receiverId \in DOMAIN onlineUsers
       THEN SetToBag({Dlv(c, "message_received", {mid}, NoUser, {}) :
                        c \in onlineUsers[receiverId] \cap AllLive})
       ELSE EmptyBag)
  (+) EmitToUserRoom(senderId, "chat_updated", {}, NoUser)
  (+) EmitToUserRoom(receiverId, "chat_updated", {}, NoUser)

\* handlers: socket.on("send_message"), through message.save()
HSendMessage(t, c, receiverId, content) ==
  /\ rev = "handlers"
  /\ StartOK(t)
  /\ Active(c)
  /\ LET k == [Call("hsend", c, sockets[c].user) EXCEPT
                 !.peer = receiverId, !.text = content]
         doc == HNewMessage(k.user, receiverId, content)
     IN IF ~HValid(doc)
        THEN /\ Returns(t, k, "Error")
             /\ emitted' = EmitToSocket(c, "error", {}, NoUser)
             /\ UNCHANGED <<messages, nextId>>
        ELSE /\ SendBudget
             /\ messages' = SaveMessage(messages, nextId, doc)
             /\ nextId' = nextId + 1
             /\ Continues(t, [k EXCEPT !.pc = "findChat", !.mid = nextId])
  /\ UNCHANGED <<regs, chats>>

\* handlers: populate and Chat.findOne complete; the chat is built or updated
\* in memory (the unread count from the value just read)
HSendFindChat(t) ==
  /\ rev = "handlers"
  /\ tasks[t].op = "hsend"
  /\ tasks[t].pc = "findChat"
  /\ LET k == tasks[t]
         i == FindChat(chats, k.user, k.peer)
     IN Continues(t, [k EXCEPT !.pc = "saveChat", !.chat = i,
                        !.n = IF i = 0 THEN 0 ELSE UnreadOf(chats[i], k.peer) + 1])
  /\ UNCHANGED <<regs, messages, nextId, chats>>

\* handlers: chat.save() completes; the events are emitted
HSendSaveChat(t) ==
  /\ rev = "handlers"
  /\ tasks[t].op = "hsend"
  /\ tasks[t].pc = "saveChat"
  /\ LET k == tasks[t]
     IN /\ chats' = IF k.chat = 0
                    THEN Append(chats, NewChat(k.user, k.peer, k.mid))
                    ELSE [chats EXCEPT ![k.chat].lastMessage = k.mid,
                                       ![k.chat].unreadCount = MapSet(@, k.peer, k.n)]
        /\ emitted' = HSendPushes(k.user, k.peer, k.mid)
        /\ Returns(t, k, "ok")
  /\ UNCHANGED <<regs, messages, nextId>>

\* handlers: send_message whose message.save() rejects
HSendMessageFails(t, c, receiverId, content) ==
  /\ rev = "handlers"
  /\ StartOK(t)
  /\ Active(c)
  /\ SendFails(t, [Call("hsend", c, sockets[c].user) EXCEPT
                     !.peer = receiverId, !.text = content, !.failed = TRUE],
               "Error")

\* handlers: populate, Chat.findOne or chat.save() rejects; the message is
\* stored already
HSendChatFails(t) ==
  /\ rev = "handlers"
  /\ tasks[t].op = "hsend"
  /\ tasks[t].pc \in {"findChat", "saveChat"}
  /\ SendFails(t, [tasks[t] EXCEPT !.failed = TRUE], "Error")

\* handlers: socket.on("mark_as_read"), through Message.updateMany
HMarkAsRead(t, c, chatId, messageIds) ==
  /\ rev = "handlers"
  /\ StartOK(t)
  /\ Active(c)
  /\ messages' = HMarkRead(messages, messageIds, sockets[c].user)
  /\ Continues(t, [Call("hmark", c, sockets[c].user) EXCEPT
                     !.pc = "findChat", !.chat = chatId, !.ids = messageIds])
  /\ UNCHANGED <<regs, nextId, chats>>

\* handlers: Chat.findById completes
HMarkFindChat(t) ==
  /\ rev = "handlers"
  /\ tasks[t].op = "hmark"
  /\ tasks[t].pc = "findChat"
  /\ LET k == tasks[t]
     IN IF k.chat \in 1..Len(chats)
        THEN Continues(t, [k EXCEPT !.pc = "saveChat"])
        ELSE /\ Returns(t, k, "ok")
             /\ emitted' = EmptyBag
  /\ UNCHANGED <<regs, messages, nextId, chats>>

\* handlers: chat.save() completes; the receipt goes to the other participant
HMarkSaveChat(t) ==
  /\ rev = "handlers"
  /\ tasks[t].op = "hmark"
  /\ tasks[t].pc = "saveChat"
  /\ LET k == tasks[t]
         other == OtherParticipant(chats[k.chat], k.user)
     IN /\ chats' = [chats EXCEPT ![k.chat].unreadCount = MapSet(@, k.user, 0)]
        /\ emitted' = IF other # NoUser
                      THEN EmitToUserRoom(other, "messages_read", k.ids, k.user)
                      ELSE EmptyBag
        /\ Returns(t, [k EXCEPT !.peer = other], "ok")
  /\ UNCHANGED <<regs, messages, nextId>>

\* handlers: POST /create of the chat routes, through the participant lookup
\* and Chat.findOne
HCreateChat(t, u, participantId) ==
  /\ rev = "handlers"
  /\ StartOK(t)
  /\ u \in Accounts
  /\ LET k == [Call("createChat", 0, u) EXCEPT !.peer = participantId]
         i == FindChat(chats, u, participantId)
     IN IF Falsy(participantId) \/ participantId = u
        THEN /\ Returns(t, k, "InvalidArgument")
             /\ emitted' = EmptyBag
        ELSE IF participantId \notin Accounts
             THEN /\ Returns(t, k, "NotFound")
                  /\ emitted' = EmptyBag
             ELSE IF i # 0
                  THEN /\ Returns(t, [k EXCEPT !.chat = i], "ok")
                       /\ emitted' = EmptyBag
                  ELSE Continues(t, [k EXCEPT !.pc = "saveChat"])
  /\ UNCHANGED <<regs, messages, nextId, chats>>

\* handlers: POST /create, chat.save() of the new chat completes
HCreateChatSave(t) ==
  /\ rev = "handlers"
  /\ tasks[t].op = "createChat"
  /\ tasks[t].pc = "saveChat"
  /\ chats' = Append(chats, NewChat(tasks[t].user, tasks[t].peer, 0))
  /\ Returns(t, [tasks[t] EXCEPT !.chat = Len(chats) + 1], "ok")
  /\ emitted' = EmptyBag
  /\ UNCHANGED <<regs, messages, nextId>>

\* --------------------------------------------- legacy: HTTP controller
\* Message.create({senderId, receiverId, text, image}): text is trimmed
LNewMessage(senderId, receiverId, text, imageUrl) ==
  [senderId |-> senderId, receiverId |-> receiverId, text |-> Trim(text),
   image |-> imageUrl, seen |-> FALSE, updatedAt |-> AtCreation]
\* sendMessage: the receiver's socket of userSocketMap gets "newMessage"
LSendPushes(receiverId, mid) ==
  IF receiverId \in DOMAIN userSocketMap
  THEN EmitToSocket(userSocketMap[receiverId], "newMessage", {mid}, NoUser)
  ELSE EmptyBag
\* Message.updateMany({senderId: selected, receiverId: current}, {seen: true})
LMarkConversation(msgs, selectedUserId, currentUserId) ==
  [m \in DOMAIN msgs |->
     IF msgs[m].senderId = selectedUserId /\ msgs[m].receiverId = currentUserId
     THEN [msgs[m] EXCEPT !.seen = TRUE, !.updatedAt = Later] ELSE msgs[m]]
\* Message.findByIdAndUpdate(id, {seen: true})
LMarkById(msgs, id) ==
  IF id \in DOMAIN msgs
  THEN [msgs EXCEPT ![id].seen = TRUE, ![id].updatedAt = Later]
  ELSE msgs

\* legacy: POST /send/:id = sendMessage (upload, create, push, response)
LSendMessage(u, receiverId, text, image) ==
  /\ rev = "legacy"
  /\ u \in Accounts
  /\ receiverId # NoUser
  /\ LET k == [Call("lsend", 0, u) EXCEPT
                 !.peer = receiverId, !.text = text, !.image = image]
     IN \E up \in UploadOutcomes(image) :
          IF up = "fail"
          THEN /\ reply' = [k EXCEPT !.pc = "done", !.res = "Error"]
               /\ emitted' = EmptyBag
               /\ UNCHANGED <<messages, nextId>>
          ELSE /\ SendBudget
               /\ messages' = SaveMessage(messages, nextId,
                                          LNewMessage(u, receiverId, text, up))
               /\ nextId' = nextId + 1
               /\ emitted' = LSendPushes(receiverId, nextId)
               /\ reply' = [k EXCEPT !.pc = "done", !.res = "ok", !.mid = nextId]
  /\ UNCHANGED <<regs, chats, tasks>>

\* legacy: sendMessage whose Message.create rejects: the catch answers 500
LSendMessageFails(u, receiverId, text, image) ==
  /\ rev = "legacy"
  /\ u \in Accounts
  /\ receiverId # NoUser
  /\ reply' = [Call("lsend", 0, u) EXCEPT
                 !.peer = receiverId, !.text = text, !.image = image,
                 !.pc = "done", !.res = "Error", !.failed = TRUE]
  /\ emitted' = EmptyBag
  /\ UNCHANGED <<regs, messages, nextId, chats, tasks>>

\* legacy: GET /:id = getMessages, through Message.find
LGetMessages(t, u, selectedUserId) ==
  /\ rev = "legacy"
  /\ StartOK(t)
  /\ u \in Accounts
  /\ Continues(t, [Call("lget", 0, u) EXCEPT
                     !.pc = "mark", !.peer = selectedUserId,
                     !.mids = Conversation(messages, u, selectedUserId)])
  /\ UNCHANGED <<regs, messages, nextId, chats>>

\* legacy: the updateMany completes and the messages read are returned
LGetMessagesSeen(t) ==
  /\ rev = "legacy"
  /\ tasks[t].op = "lget"
  /\ tasks[t].pc = "mark"
  /\ messages' = LMarkConversation(messages, tasks[t].peer, tasks[t].user)
  /\ Returns(t, [tasks[t] EXCEPT !.ret = Undefined], "ok")
  /\ emitted' = EmptyBag
  /\ UNCHANGED <<regs, nextId, chats>>

\* legacy: PUT /mark/:id = markMessagesAsSeen
LMarkSeen(u, id) ==
  /\ rev = "legacy"
  /\ u \in Accounts
  /\ messages' = LMarkById(messages, id)
  /\ reply' = [Call("lmark", 0, u) EXCEPT !.pc = "done", !.res = "ok", !.mid = id]
  /\ emitted' = EmptyBag
  /\ UNCHANGED <<regs, nextId, chats, tasks>>

\* ---------------------------------------------------------- next-state
AnyUser == UserIds \cup {NoUser}
TextOnly == {<<"hi", "">>}
\* one handler invocation in flight at a time
OneAtATime == {1}

\* connections cs come and go, for the users us (the three revisions)
Connects(cs, us) ==
  \/ \E c \in cs, u \in us : HConnect(c, u)
  \/ \E c \in cs : HDisconnect(c)
  \/ \E c \in cs, u \in us : SConnect(c, u)
  \/ \E c \in cs : SDisconnect(c)
  \/ \E c \in cs, u \in us : LConnect(c, u)
  \/ \E c \in cs : LDisconnect(c)

\* handshakes the authentication middleware refuses
Rejects(cs) == \E c \in cs, tok \in Tokens : HReject(c, tok)

\* handlers raised once more for the same socket
Redundant(cs) ==
  \/ \E c \in cs : HConnectAgain(c)
  \/ \E c \in cs : HDisconnectAgain(c)
  \/ \E c \in cs : SConnectAgain(c)
  \/ \E c \in cs : SDisconnectAgain(c)
  \/ \E c \in cs : LConnectAgain(c)
  \/ \E c \in cs : LDisconnectAgain(c)

\* the typing events
Typing(cs, rs) ==
  \/ \E c \in cs, r \in rs, b \in BOOLEAN : STyping(c, r, b)
  \/ \E c \in cs, r \in rs, b \in BOOLEAN : HTyping(c, r, b)

\* at most mx messages are sent
Within(mx) == nextId' + Unsaved' <= mx + 1

\* the send handlers, with receivers rs and payloads ps, in the slots ts
Sends(ts, rs, ps, mx) ==
  \/ \E t \in ts, c \in Conns, r \in rs, p \in ps :
       SSendMessage(t, c, r, p[1], p[2]) /\ Within(mx)
  \/ \E t \in ts, u \in Accounts, r \in rs, p \in ps :
       SHttpSend(t, u, r, p[1], p[2]) /\ Within(mx)
  \/ \E t \in ts : SCreateSave(t)
  \/ \E t \in ts, c \in Conns, r \in rs, p \in ps :
       HSendMessage(t, c, r, p[1]) /\ Within(mx)
  \/ \E t \in ts : HSendFindChat(t)
  \/ \E t \in ts : HSendSaveChat(t)
  \/ \E u \in Accounts, r \in rs, p \in ps :
       LSendMessage(u, r, p[1], p[2]) /\ Within(mx)

\* the sends during which the store fails
StoreFails(ts, rs, ps) ==
  \/ \E t \in ts : SCreateSaveFails(t)
  \/ \E t \in ts, c \in Conns, r \in rs, p \in ps : HSendMessageFails(t, c, r, p[1])
  \/ \E t \in ts : HSendChatFails(t)
  \/ \E u \in Accounts, r \in rs, p \in ps : LSendMessageFails(u, r, p[1], p[2])

\* the chat creations over HTTP
Chats(ts, ps) ==
  \/ \E t \in ts, u \in Accounts, p \in ps : HCreateChat(t, u, p)
  \/ \E t \in ts : HCreateChatSave(t)

\* the mark-seen handlers
Marks(ts) ==
  \/ \E t \in ts, c \in Conns, ms \in SUBSET MsgIds, u \in Accounts :
       SMarkMessagesRead(t, c, ms, u)
  \/ \E t \in ts, m \in MsgIds : SMarkOne(t, m)
  \/ \E t \in ts, u \in Accounts, m \in MsgIds : SHttpMark(t, u, m)
  \/ \E t \in ts : SHttpMarkSeen(t)
  \/ \E t \in ts, c \in Conns, ch \in 0..MaxMsgs, ms \in SUBSET MsgIds :
       HMarkAsRead(t, c, ch, ms)
  \/ \E t \in ts : HMarkFindChat(t)
  \/ \E t \in ts : HMarkSaveChat(t)
  \/ \E u \in Accounts, m \in MsgIds : LMarkSeen(u, m)

\* the conversation fetches
Fetches(ts, lims) ==
  \/ \E t \in ts, u \in Accounts, o \in UserIds, pg \in Pages, lm \in lims :
       SGetConversation(t, u, o, pg, lm)
  \/ \E t \in ts : SConversationSeen(t)
  \/ \E t \in ts, u \in Accounts, o \in UserIds : LGetMessages(t, u, o)
  \/ \E t \in ts : LGetMessagesSeen(t)

\* the deletions
Deletes(ts) ==
  \/ \E t \in ts, u \in Accounts, m \in MsgIds : SHttpDelete(t, u, m)
  \/ \E t \in ts : SDeleteMessage(t)

Next ==
  \/ Connects(Conns, AnyUser)
  \/ Rejects(Conns)
  \/ Redundant(Conns)
  \/ Typing(Conns, AnyUser)
  \/ Sends(Tasks, AnyUser, Payloads, MaxMsgs)
  \/ StoreFails(Tasks, AnyUser, Payloads)
  \/ Chats(Tasks, AnyUser)
  \/ Marks(Tasks)
  \/ Fetches(Tasks, Limits)
  \/ Deletes(Tasks)

\* the whole system
Spec == Init /\ [][Next]_vars

\* the session registries alone
NextPresence == Connects(Conns, AnyUser) \/ Rejects(Conns)
SpecPresence == Init /\ [][NextPresence]_vars

\* connecting and disconnecting, with handlers raised more than once
NextRedundant == Connects(Conns, AnyUser) \/ Redundant(Conns)
SpecRedundant == Init /\ [][NextRedundant]_vars

\* sending, with every payload and receiver
SendMsgs == 1
NextSend ==
  \/ Connects(Conns, Accounts)
  \/ Sends(OneAtATime, AnyUser, Payloads, SendMsgs)
SpecSend == Init /\ [][NextSend]_vars

\* sending and deleting: what is pushed against what is stored
NextNotify ==
  \/ Connects(Conns, Accounts)
  \/ Sends(OneAtATime, Accounts, TextOnly, SendMsgs)
  \/ Deletes(OneAtATime)
SpecNotify == Init /\ [][NextNotify]_vars

\* marking seen
SeenMsgs == 1
NextSeen ==
  \/ Connects(Conns, Accounts)
  \/ Sends(OneAtATime, Accounts, TextOnly, SeenMsgs)
  \/ Marks(OneAtATime)
SpecSeen == Init /\ [][NextSeen]_vars

\* the stored conversation: sends, fetches, deletions
StoreConns == 2
NextStore ==
  \/ Connects(1..StoreConns, Accounts)
  \/ Sends(OneAtATime, Accounts, TextOnly, MaxMsgs)
  \/ Fetches(OneAtATime, Limits)
  \/ Deletes(OneAtATime)
SpecStore == Init /\ [][NextStore]_vars

\* connecting, disconnecting and typing
NextTyping == Connects(Conns, Accounts) \/ Typing(Conns, AnyUser)
SpecTyping == Init /\ [][NextTyping]_vars

\* sending while the store may fail
NextFail ==
  \/ Connects(Conns, Accounts)
  \/ Sends(OneAtATime, Accounts, TextOnly, SendMsgs)
  \/ StoreFails(OneAtATime, Accounts, TextOnly)
SpecFail == Init /\ [][NextFail]_vars

\* send handlers that run concurrently
NextRace ==
  \/ Connects(1..StoreConns, Accounts)
  \/ Sends(Tasks, Accounts, TextOnly, MaxMsgs)
SpecRace == Init /\ [][NextRace]_vars

\* the inbound events of sockets with and without a user id
NextInbound ==
  \/ Connects(1..StoreConns, AnyUser)
  \/ Typing(1..StoreConns, Accounts)
  \/ Sends(OneAtATime, Accounts, TextOnly, SendMsgs)
  \/ Marks(OneAtATime)
SpecInbound == Init /\ [][NextInbound]_vars

\* chats found or created by concurrent sends and HTTP creations
NextChat ==
  \/ Connects(1..StoreConns, Accounts)
  \/ Sends(Tasks, Accounts, TextOnly, MaxMsgs)
  \/ Chats(Tasks, AnyUser)
SpecChat == Init /\ [][NextChat]_vars

\* the life of a message: sends, marks, fetches, deletions
NextLife ==
  \/ Connects(1..StoreConns, Accounts)
  \/ Sends(OneAtATime, Accounts, TextOnly, MaxMsgs)
  \/ Marks(OneAtATime)
  \/ Fetches(OneAtATime, Limits)
  \/ Deletes(OneAtATime)
SpecLife == Init /\ [][NextLife]_vars

\* ============================================================ properties
\* the connections the transport closed for user u
ClosedConns(u) == {c \in Conns : sockets[c].st = "closed" /\ sockets[c].user = u}

\* C1: a user is online (the registry answers so) exactly when at least one
\* live connection exists for it; in particular a user with two connections
\* stays online when one of them closes.
C1_OnlineIffLiveConnection ==
  \A u \in Accounts : IsUserOnline(u) <=> LiveConns(u) # {}

\* C2: onlineUsers holds a key for a user exactly when the set of socket ids
\* kept for that user is non-empty: no key maps to the empty set, the key goes
\* in the step that closes the user's last connection, and stays while one
\* of the user's connections is left.
C2_KeyIffNonEmptySet ==
  rev = "handlers" =>
    /\ \A u \in DOMAIN onlineUsers : onlineUsers[u] # {}
    /\ \A u \in UserIds : u \in DOMAIN onlineUsers <=> LiveConns(u) # {}
\* a user's last connection has closed and its key is gone, another user's
\* key is kept
C2_Witness ==
  /\ rev = "handlers"
  /\ \E u \in Accounts : ClosedConns(u) # {} /\ u \notin DOMAIN onlineUsers
  /\ \E v \in Accounts : v \in DOMAIN onlineUsers /\ ClosedConns(v) # {}

\* what the last step delivered
Delivered == BagToSet(emitted)
\* how many times connection c got event ev for message m in the last step
Got(c, ev, m) == CopiesIn(Dlv(c, ev, {m}, NoUser, {}), emitted)
\* the events that announce a message
MessageEvents == {"message_sent", "message_received", "newMessage"}
\* a send returned successfully in the last step
SendReturned(ops) == reply.op \in ops /\ reply.res = "ok"
\* the seen flag of a stored message (isRead in the handlers revision)
Seen(m) == IF rev = "handlers" THEN messages[m].isRead ELSE messages[m].seen
ReceiverOf(msgs, m) == IF rev = "handlers" THEN msgs[m].receiver ELSE msgs[m].receiverId
SenderOf(msgs, m) == IF rev = "handlers" THEN msgs[m].sender ELSE msgs[m].senderId

\* C3: after a single successful send over a socket to another user, every
\* connection live for the receiver at push time has received exactly one
\* message_received event for the message, also when the receiver has two or
\* more connections.
C3_OneReceivedPerReceiverConnection ==
  SendReturned({"send", "hsend"}) /\ reply.peer # reply.user =>
    \A c \in LiveConns(reply.peer) : Got(c, "message_received", reply.mid) = 1

\* C4: after a single successful send over a socket, every live connection of
\* the sender (the sending one and every other one of the same user) has
\* received exactly one message_sent acknowledgment for the message.
C4_OneSentPerSenderConnection ==
  SendReturned({"send", "hsend"}) =>
    \A c \in LiveConns(reply.user) : Got(c, "message_sent", reply.mid) = 1

\* C6: persist precedes notify: whenever a message_sent, message_received or
\* newMessage event is delivered, and whenever a send answers with success,
\* the message it names is in the Message collection.
C6_PersistPrecedesNotify ==
  /\ \A d \in Delivered : d.ev \in MessageEvents => d.mids \subseteq DOMAIN messages
  /\ SendReturned(SendOps) => reply.mid \in DOMAIN messages
\* a send has just pushed the message to the receiver and acknowledged it
C6_Witness ==
  /\ SendReturned(SendOps)
  /\ \E d \in Delivered : d.ev = "message_received" /\ d.mids = {reply.mid}
  /\ \E d \in Delivered : d.ev = "message_sent" /\ d.mids = {reply.mid}

\* the fetch handlers, and a step that starts one in slot t
FetchOps == {"getConv", "lget"}
FetchStarts(t) == tasks[t].op = "idle" /\ tasks'[t].op \in FetchOps
\* message m is exchanged between users a and b
Between(m, a, b) ==
  \/ SenderOf(messages, m) = a /\ ReceiverOf(messages, m) = b
  \/ SenderOf(messages, m) = b /\ ReceiverOf(messages, m) = a
\* the messages of the same two users stored after m
Newer(m) ==
  {n \in DOMAIN messages :
     n > m /\ Between(n, SenderOf(messages, m), ReceiverOf(messages, m))}
\* the page the fetch k asks for covers the position of m, newest first
\* (the legacy fetch is not paged)
OnPage(k, m) ==
  \/ k.op = "lget"
  \/ /\ Cardinality(Newer(m)) >= (k.page - 1) * k.limit
     /\ Cardinality(Newer(m)) < k.page * k.limit
\* a send to a receiver without a live connection has returned: the message
\* is stored unseen and was pushed to nobody
OfflineSendStored ==
  SendReturned(SendOps) /\ LiveConns(reply.peer) = {} =>
    /\ reply.mid \in DOMAIN messages
    /\ ~Seen(reply.mid)
    /\ \A d \in Delivered :
         ~(d.ev \in {"message_received", "newMessage"} /\ reply.mid \in d.mids)
\* a fetch returns the page it read
ReturnsPageRead ==
  \A t \in Tasks :
    tasks[t].op \in FetchOps /\ reply'.op \in FetchOps => reply'.mids = tasks[t].mids

\* C5 (as the code has it): a message sent to a receiver with zero live
\* connections is stored with seen = false and no message_received is pushed
\* for it; every later fetch of the conversation by either participant whose
\* page covers the message's position, newest first, contains the message
\* while it is stored.
C5_OfflineSendFetchedOnItsPage ==
  [][/\ OfflineSendStored'
     /\ ReturnsPageRead
     /\ \A t \in Tasks : FetchStarts(t) =>
          \A m \in DOMAIN messages :
            Between(m, tasks'[t].user, tasks'[t].peer) /\ OnPage(tasks'[t], m)
              => m \in tasks'[t].mids]_vars
\* C5 (as stated): ... any later fetch of the conversation by either
\* participant contains the message, whatever page it asks for.
C5_OfflineSendFetchedAlways ==
  [][/\ OfflineSendStored'
     /\ ReturnsPageRead
     /\ \A t \in Tasks : FetchStarts(t) =>
          \A m \in DOMAIN messages :
            Between(m, tasks'[t].user, tasks'[t].peer) => m \in tasks'[t].mids]_vars
\* the receiver, back on a new connection after its earlier one closed, has
\* fetched the conversation; the page holds a message sent to it, now seen
C5_Witness ==
  /\ reply.op = "getConv" /\ reply.res = "ok"
  /\ ClosedConns(reply.user) # {} /\ LiveConns(reply.user) # {}
  /\ \E m \in reply.mids :
       /\ m \in DOMAIN messages
       /\ messages[m].receiverId = reply.user
       /\ messages[m].senderId = reply.peer
       /\ messages[m].seen

\* the mark-seen handlers and the messages a call names
MarkOps == {"markRead", "httpMark", "hmark", "lmark"}
Named(k) == IF k.op \in {"markRead", "hmark"} THEN k.ids ELSE {k.mid}

\* C7: a mark-seen call on an existing message by a user who is not its
\* receiver answers Forbidden and leaves the message as it was, on the socket
\* events and on the HTTP routes alike.
C7_NonReceiverForbidden ==
  [][reply'.op \in MarkOps /\ Named(reply') \subseteq DOMAIN messages =>
       \A m \in Named(reply') :
         ReceiverOf(messages, m) # reply'.user =>
           reply'.res = "Forbidden" /\ messages'[m] = messages[m]]_vars

\* C8: after the receiver B has successfully marked a message of A as seen
\* (naming A as the sender), the stored message is seen and every live
\* connection of A has got a messages_read event with the message's id and B
\* as the reader; without a live connection of A nothing is pushed.
C8_ReceiptToEverySenderConnection ==
  reply.op \in {"markRead", "httpMark"} /\ reply.res = "ok" /\ reply.peer # reply.user =>
    \A m \in Named(reply) \cap DOMAIN messages :
      messages[m].receiverId = reply.user /\ messages[m].senderId = reply.peer =>
        /\ messages[m].seen
        /\ \A c \in LiveConns(reply.peer) :
             \E d \in Delivered :
               d.to = c /\ d.ev = "messages_read" /\ m \in d.mids /\ d.who = reply.user
        /\ LiveConns(reply.peer) = {} =>
             \A d \in Delivered : d.ev \notin {"messages_read", "error"}

\* C9: a delete of an existing message by a user who is not its sender answers
\* Forbidden and the message stays; by its sender it removes the message, and
\* no later fetch of the conversation returns a message that is not stored.
C9_DeleteOnlyBySender ==
  [][/\ reply'.op = "delete" /\ reply'.mid \in DOMAIN messages =>
          IF messages[reply'.mid].senderId # reply'.user
          THEN /\ reply'.res = "Forbidden"
               /\ reply'.mid \in DOMAIN messages'
               /\ messages'[reply'.mid] = messages[reply'.mid]
          ELSE /\ reply'.res = "ok"
               /\ reply'.mid \notin DOMAIN messages'
     /\ \A t \in Tasks : FetchStarts(t) => tasks'[t].mids \subseteq DOMAIN messages]_vars

\* C10: a send with both text and image empty, to an existing user, is
\* rejected with InvalidArgument, the Message collection is left as it was and
\* no message_sent, message_received or newMessage event is pushed.
C10_EmptySendRejected ==
  [][reply'.op \in SendOps /\ Falsy(reply'.text) /\ Falsy(reply'.image)
       /\ reply'.peer \in Accounts =>
         /\ reply'.res = "InvalidArgument"
         /\ messages' = messages
         /\ \A d \in BagToSet(emitted') : d.ev \notin MessageEvents]_vars

\* the presence broadcasts
PresenceEvents == {"getOnlineUsers", "online_users"}
\* the registry of the revision, as sets of socket ids
Registry ==
  IF rev = "handlers" THEN onlineUsers
  ELSE [u \in DOMAIN userSocketMap |-> {userSocketMap[u]}]
\* connection c leaves the handshake in this step
Handshaken(c) == sockets[c].st = "new" /\ sockets'[c].st # "new"

PresenceBroadcast == \E d \in BagToSet(emitted') : d.ev \in PresenceEvents
\* a connection is opened or closed in this step
ConnectionChange == \E c \in Conns : sockets'[c].st # sockets[c].st

\* C12: a presence broadcast is emitted after exactly those connects and
\* disconnects that change the set of online user ids; a second connection of
\* an online user, or closing one of several connections, triggers none.
C12_BroadcastIffOnlineSetChanges ==
  [][ConnectionChange /\ AllLive' # {} =>
       (PresenceBroadcast <=> DOMAIN Registry' # DOMAIN Registry)]_vars

\* the presence broadcasts delivered in this step
PresenceDeliveries == {d \in BagToSet(emitted') : d.ev \in PresenceEvents}

\* C13: every presence broadcast carries exactly the key set the registry has
\* when it is emitted, and every change of the key set is followed by a
\* broadcast to every connection, so that the most recent broadcast equals the
\* current online set.
C13_BroadcastCarriesKeySet ==
  [][/\ \A d \in PresenceDeliveries : d.users = DOMAIN Registry'
     /\ DOMAIN Registry' # DOMAIN Registry =>
          {d.to : d \in PresenceDeliveries} = AllLive']_vars
\* a connection was closed, the key set shrank and the remaining connection was
\* told the one key that is left
C13_Witness ==
  /\ \E c \in Conns : sockets[c].st = "closed" /\ sockets[c].user \in Accounts
                       /\ sockets[c].user \notin DOMAIN Registry
  /\ \E d \in BagToSet(emitted) :
       /\ d.ev \in PresenceEvents
       /\ d.users = DOMAIN Registry
       /\ Cardinality(d.users) = 1

\* the registry holds the pair (u, c)
Registered(reg, u, c) == u \in DOMAIN reg /\ c \in reg[u]
\* the connection sets of every user but u are the same before and after
OthersUnchanged(u) ==
  /\ DOMAIN Registry' \ {u} = DOMAIN Registry \ {u}
  /\ \A v \in DOMAIN Registry \ {u} : Registry'[v] = Registry[v]
\* the handler op ran once more for its socket in this step
RaisedAgain(op) == reply'.op = op /\ reply'.pc = "done"

\* C14: a disconnect for a (user, connection) pair that is not in the registry
\* and a repeated registration of a pair raise no error, leave the connection
\* sets of every other user unchanged and leave the pair present at most once
\* (absent after the disconnect, present once after the registration); after
\* the first disconnect of an active connection the pair is absent.
C14_RedundantRegistryCallsSafe ==
  [][/\ RaisedAgain("disconnect")
          /\ ~Registered(Registry, reply'.user, reply'.sock) =>
          /\ reply'.res = "ok"
          /\ OthersUnchanged(reply'.user)
          /\ ~Registered(Registry', reply'.user, reply'.sock)
     /\ RaisedAgain("connection") /\ reply'.user # NoUser =>
          /\ reply'.res = "ok"
          /\ OthersUnchanged(reply'.user)
          /\ Registered(Registry', reply'.user, reply'.sock)
     /\ \A c \in Conns :
          sockets[c].st = "active" /\ sockets'[c].st = "closed" =>
            /\ ~Registered(Registry', sockets[c].user, c)
            /\ OthersUnchanged(sockets[c].user)]_vars
\* the disconnect handler has run once more for a closed connection of a user
\* who still has another connection registered, next to another online user
C14_Witness ==
  /\ reply.op = "disconnect" /\ reply.pc = "done"
  /\ sockets[reply.sock].st = "closed"
  /\ reply.user \in DOMAIN Registry
  /\ \E v \in DOMAIN Registry : v # reply.user

\* the fields of a stored message other than its seen flag
SeenFields == {"seen", "isRead"}
\* the dates a mark-seen records
SeenDates == {"updatedAt", "readAt"}
Without(doc, fs) == [f \in DOMAIN doc \ fs |-> doc[f]]
SeenOf(doc) == IF rev = "handlers" THEN doc.isRead ELSE doc.seen
\* the messages stored before and after the step
Kept == DOMAIN messages \cap DOMAIN messages'

\* C15: across send, mark-seen, bulk mark-seen, fetch and delete the seen flag
\* of a stored message never goes back from true to false, and no field of a
\* stored message other than the seen flag changes after its creation.
C15_SeenMonotoneFieldsFixed ==
  [][\A m \in Kept :
       /\ SeenOf(messages[m]) => SeenOf(messages'[m])
       /\ Without(messages'[m], SeenFields) = Without(messages[m], SeenFields)]_vars
\* C15, as the code has it: the seen flag never goes back, and no field other
\* than the seen flag and the dates that record the marking (updatedAt,
\* readAt) changes after creation; the dates change only in a step that
\* marks the message or finds it marked.
C15_SeenMonotoneContentFixed ==
  [][\A m \in Kept :
       /\ SeenOf(messages[m]) => SeenOf(messages'[m])
       /\ Without(messages'[m], SeenFields \cup SeenDates)
            = Without(messages[m], SeenFields \cup SeenDates)
       /\ messages'[m] # messages[m] => SeenOf(messages'[m])]_vars
\* a mark or a fetch has returned while a seen message is stored next to
\* another message
C15_Witness ==
  /\ reply.pc = "done" /\ reply.op \in MarkOps \cup FetchOps
  /\ \E m \in DOMAIN messages : Seen(m) /\ messages[m].updatedAt = Later
  /\ Cardinality(DOMAIN messages) = 2

\* the read receipts delivered in this step
Receipts == {d \in BagToSet(emitted') : d.ev = "messages_read"}
\* a mark-seen call returned in this step, made by the receiver of every
\* message it names
MarkByReceiver ==
  /\ reply'.op \in MarkOps /\ reply'.pc = "done"
  /\ Named(reply') # {} /\ Named(reply') \subseteq DOMAIN messages
  /\ \A m \in Named(reply') : ReceiverOf(messages, m) = reply'.user

\* C16: MarkSeen is idempotent: a call by the receiver, the first and any
\* later one on the same message, does not answer an error and leaves the
\* message seen; a call on a message already seen leaves the stored messages
\* as they were; each call pushes at most one read receipt to each connection.
C16_MarkSeenIdempotent ==
  [][MarkByReceiver =>
       /\ reply'.res = "ok"
       /\ DOMAIN messages' = DOMAIN messages
       /\ \A m \in Named(reply') : SeenOf(messages'[m])
       /\ (\A m \in Named(reply') : SeenOf(messages[m])) =>
            \A m \in DOMAIN messages :
              Without(messages'[m], SeenDates) = Without(messages[m], SeenDates)
       /\ \A d \in Receipts :
            /\ CopiesIn(d, emitted') = 1
            /\ \A e \in Receipts : e.to = d.to => e = d]_vars

\* a send that stored a message returns in this step
StoredSendReturns ==
  reply'.op \in SendOps /\ reply'.pc = "done" /\ reply'.mid # 0

\* C17: a failed push is isolated from the send: when the receiver has no
\* connection at the push (it disappeared after the persist, or the receiver
\* was never online), the sender is not sent an error, the send completes as
\* success and the persisted message is still stored, unaltered.
C17_PushFailureIsolated ==
  [][StoredSendReturns /\ LiveConns(reply'.peer) = {} =>
       /\ reply'.res = "ok"
       /\ \A d \in BagToSet(emitted') : d.ev # "error"
       /\ reply'.mid \in DOMAIN messages'
       /\ reply'.mid \in DOMAIN messages => messages'[reply'.mid] = messages[reply'.mid]
       /\ SenderOf(messages', reply'.mid) = reply'.user
       /\ ReceiverOf(messages', reply'.mid) = reply'.peer]_vars
\* a send has returned whose receiver had a connection that is closed, and has
\* no live one
C17_Witness ==
  /\ SendReturned(SendOps) /\ reply.mid \in DOMAIN messages
  /\ reply.peer # reply.user
  /\ ClosedConns(reply.peer) # {} /\ LiveConns(reply.peer) = {}
  /\ \A d \in Delivered : d.ev # "message_received"

\* a send during which the store failed returns in this step
FailedSendReturns ==
  reply'.op \in SendOps /\ reply'.pc = "done" /\ reply'.failed

\* C18: when the message store fails during a send, the sender is told that
\* the send failed: the sending connection, if still open, gets an error event
\* (an HTTP caller an error response), and no message_sent and no
\* message_received is emitted for that send.
C18_StoreFailureReported ==
  [][FailedSendReturns =>
       /\ reply'.res \notin {"ok", "none"}
       /\ reply'.sock # 0 /\ Active(reply'.sock) =>
            \E d \in BagToSet(emitted') : d.to = reply'.sock /\ d.ev = "error"
       /\ \A d \in BagToSet(emitted') : d.ev \notin MessageEvents]_vars
\* a send over a socket has failed in the store while sender and receiver
\* were both connected, and the sending connection got the error
C18_Witness ==
  /\ reply.op \in SendOps /\ reply.pc = "done" /\ reply.failed
  /\ reply.sock # 0 /\ reply.peer # reply.user
  /\ LiveConns(reply.peer) # {}
  /\ \E d \in Delivered : d.to = reply.sock /\ d.ev = "error"

\* a send with content returns in this step whose receiver id is well-formed
\* and names no account
GhostSendReturns ==
  /\ reply'.op \in SendOps /\ reply'.pc = "done"
  /\ reply'.peer = Ghost
  /\ ~Falsy(Trim(reply'.text))

\* C19: a send whose sender or receiver id does not resolve to an existing
\* account returns NotFound, stores no message and pushes no message event to
\* any connection.
C19_UnknownUserNotFound ==
  [][GhostSendReturns =>
       /\ reply'.res = "NotFound"
       /\ reply'.mid = 0
       /\ \A m \in DOMAIN messages' : ReceiverOf(messages', m) # Ghost
       /\ \A d \in BagToSet(emitted') : d.ev \notin MessageEvents]_vars

\* the typing events and the user_typing deliveries of this step
TypingOps == {"typing_start", "typing_stop"}
TypingDeliveries == {d \in BagToSet(emitted') : d.ev = "user_typing"}

\* C20: a typing_start or typing_stop event changes neither the stored
\* messages nor the session registry; it is pushed as user_typing, once, to
\* each connection of the receiver that is live at that moment; with no such
\* connection it is dropped, and no user_typing is delivered in any later step
\* (when the receiver connects).
C20_TypingRelayedToLiveConnections ==
  [][/\ reply'.op \in TypingOps =>
          /\ messages' = messages /\ chats' = chats
          /\ Registry' = Registry
          /\ {d.to : d \in TypingDeliveries} = LiveConns(reply'.peer)
          /\ \A d \in TypingDeliveries :
               CopiesIn(d, emitted') = 1 /\ d.who = reply'.user
     /\ reply'.op \notin TypingOps => TypingDeliveries = {}]_vars

\* a conversation fetch returns in this step: its bulk mark-seen has run for
\* reader reply'.user and other user reply'.peer
BulkMarkReturns == reply'.op \in FetchOps /\ reply'.res = "ok"
\* the stored messages the bulk mark-seen is to flip
ToFlip ==
  {m \in DOMAIN messages :
     /\ messages[m].senderId = reply'.peer /\ messages[m].receiverId = reply'.user
     /\ ~messages[m].seen}
\* the bulk mark-seen flips exactly the unseen messages of the other user to
\* the reader and leaves every other message as it was (the legacy updateMany
\* has no seen filter and rewrites updatedAt of the ones already seen)
FlipsExactly ==
  /\ DOMAIN messages' = DOMAIN messages
  /\ \A m \in ToFlip :
       /\ messages'[m].seen
       /\ Without(messages'[m], SeenFields \cup SeenDates)
            = Without(messages[m], SeenFields \cup SeenDates)
  /\ \A m \in DOMAIN messages \ ToFlip :
       /\ Without(messages'[m], SeenDates) = Without(messages[m], SeenDates)
       /\ rev = "service" => messages'[m] = messages[m]

HasContent(doc) ==
  IF rev = "handlers" THEN ~Falsy(Trim(doc.content))
  ELSE ~(Falsy(Trim(doc.text)) /\ Falsy(doc.image))

\* C22: every stored message has a non-empty text (after trimming) or an image
\* reference, whatever sends were made through the socket event and the HTTP
\* route, a whitespace-only text without image included.
C22_StoredMessageHasContent ==
  \A m \in DOMAIN messages : HasContent(messages[m])

\* the message_received pushes of the previous step and of this step
ReceivedBefore == {d \in BagToSet(emitted) : d.ev = "message_received"}
ReceivedNow == {d \in BagToSet(emitted') : d.ev = "message_received"}
\* messages m and n are stored with the same sender and the same receiver
SamePair(m, n) ==
  /\ {m, n} \subseteq DOMAIN messages'
  /\ SenderOf(messages', m) = SenderOf(messages', n)
  /\ ReceiverOf(messages', m) = ReceiverOf(messages', n)

\* C23: for two messages of one sender to one receiver, the order in which
\* their message_received events are pushed to a receiver connection is the
\* order in which their persists completed (the order of their ids): a
\* connection that was pushed one of them in the previous step is not pushed
\* an earlier-persisted one in this step.
C23_PushOrderIsPersistOrder ==
  [][\A d \in ReceivedBefore, e \in ReceivedNow :
       d.to = e.to =>
         \A m \in d.mids, n \in e.mids : SamePair(m, n) => m < n]_vars

\* a socket event handler returns in this step for a socket that carries no
\* verified user id
UnverifiedEventReturns ==
  /\ reply'.op \in SendOps \cup MarkOps \cup TypingOps
  /\ reply'.pc = "done" /\ reply'.sock # 0
  /\ sockets[reply'.sock].user \notin Accounts

\* C24: a send_message, typing_start / typing_stop or mark-seen event that
\* arrives on a connection without a verified user id persists nothing and
\* pushes no event to any other connection.
C24_UnverifiedEventHasNoEffect ==
  [][UnverifiedEventReturns =>
       /\ messages' = messages /\ chats' = chats
       /\ \A d \in BagToSet(emitted') : d.to = reply'.sock]_vars

\* the stored messages whose seen flag goes from false to true in this step
Flipped == {m \in Kept : ~SeenOf(messages[m]) /\ SeenOf(messages'[m])}

\* C25: a stored message becomes seen only by a mark-seen call of its receiver
\* or by a conversation fetch that returns it to its receiver: the fetch of a
\* page marks no message outside the returned page and none that was created
\* between the fetch's read and its bulk mark-seen.
C25_SeenOnlyIfMarkedOrFetched ==
  [][\A m \in Flipped :
       \/ /\ reply'.op \in MarkOps
          /\ m \in Named(reply') /\ ReceiverOf(messages, m) = reply'.user
       \/ /\ reply'.op \in FetchOps
          /\ m \in reply'.mids /\ ReceiverOf(messages, m) = reply'.user]_vars

\* C26: a messages_read event is delivered only to connections of the user
\* who is the stored sender of the messages it lists; the target is never
\* determined by a sender id or chat id that the caller supplies.
C26_ReceiptOnlyToStoredSender ==
  [][\A d \in Receipts :
       /\ d.mids \subseteq DOMAIN messages'
       /\ \A m \in d.mids : SenderOf(messages', m) = sockets'[d.to].user]_vars

\* the mark_messages_read batches that have reported an error to the caller
\* and still have calls running
FailedBatches == {t \in Tasks : tasks[t].op = "markRead" /\ tasks[t].failed}

\* C27: a mark_messages_read batch is all-or-nothing: once the handler has
\* reported an error to the caller, no listed message has its seen flag
\* changed by the batch and no messages_read receipt is emitted for it.
C27_FailedBatchChangesNothing ==
  [][\A t \in FailedBatches :
       /\ \A m \in tasks[t].ids \cap Kept :
            SeenOf(messages'[m]) = SeenOf(messages[m])
       /\ \A d \in Receipts : d.mids # tasks[t].ids]_vars

\* a send handler reports a failure to the sender in this step
SendReportsFailure ==
  reply'.op \in SendOps /\ reply'.pc = "done" /\ reply'.res # "ok"

\* C28: a send_message handler that reports "Failed to send message" to the
\* sender has stored no message: a failure in a step after the message save
\* never leaves a persisted message that the sender was told failed.
C28_FailedSendStoresNothing ==
  [][SendReportsFailure => reply'.mid \notin DOMAIN messages']_vars

\* no handler is running
Quiescent == \A t \in Tasks : tasks[t].op = "idle"
\* the stored messages addressed to p by q that are not read
UnreadMessages(p, q) ==
  {m \in DOMAIN messages :
     messages[m].receiver = p /\ messages[m].sender = q /\ ~messages[m].isRead}

\* C29: when the send_message and mark_as_read handlers have run, in whatever
\* interleaving, every chat holds for each participant p the number of stored
\* unread messages addressed to p by the other participant.
C29_UnreadCountMatchesMessages ==
  rev = "handlers" /\ Quiescent =>
    \A i \in 1..Len(chats) :
      LET a == chats[i].participants[1]
          b == chats[i].participants[2]
      IN a # b =>
           /\ UnreadOf(chats[i], a) = Cardinality(UnreadMessages(a, b))
           /\ UnreadOf(chats[i], b) = Cardinality(UnreadMessages(b, a))

\* the unordered pair of users of a chat
PairOf(ch) == {ch.participants[1], ch.participants[2]}

\* C30: at most one Chat document exists for each unordered pair of users,
\* under every interleaving of send_message handlers and HTTP chat creations.
C30_OneChatPerPair ==
  \A i \in 1..Len(chats), j \in 1..Len(chats) :
    PairOf(chats[i]) = PairOf(chats[j]) => i = j

====
